---- MODULE Spec2Model ----
(***************************************************************************)
(* Model of uefi/src/data_types/strs.rs: the null-terminated Latin-1       *)
(* (CStr8) and UCS-2 (CStr16) string views, their checked constructors,    *)
(* the conversion to and from native strings, the comparison               *)
(* eq_str_until_nul, the accessors and the iterator of a view, the         *)
(* Latin-1 codec of the cstr8 macro, from_ptr and PoolString.              *)
(*                                                                         *)
(* A slice is a sequence of integers.  Rust indices are 0-based; the       *)
(* element at Rust index i of a slice s is s[i + 1].  A native string      *)
(* (str) is the sequence of its scalar values (chars).                     *)
(*                                                                         *)
(* One behaviour is one call: Init draws the pending call (op) and its     *)
(* arguments, the action of that operation runs the call and records its   *)
(* return value in result, and the conversions back to a native string,    *)
(* the accessors and the iterator run on the view a successful             *)
(* constructor returned.  The loops of the Latin-1 codec run one           *)
(* iteration per step, and a PoolString is dereferenced and dropped while  *)
(* the memory behind its pointer is written to.                            *)
(***************************************************************************)
EXTENDS Integers, Sequences, FiniteSets, TLC

VARIABLES
    pc,      \* "call": the call is pending; "done": it returned; "decoded": the view was converted back;
             \* "accessed", "iterating": the view is read; "loop": in a loop; "owned": a PoolString is held
    op,      \* the operation called
    input,   \* first argument: the units (or the scalars of the &str) passed in
    other,   \* eq_str_until_nul: the scalars of the native string compared against
    buf0,    \* the caller's buffer when the call is made
    buf,     \* the caller's buffer now
    result,  \* the value returned by the call
    out,     \* the native string converted back from the view, and whether the conversion panicked
    got,     \* the values the accessors of the returned view gave, or the last dereference of the PoolString
    it,      \* the CStr16Iter over the returned view, and what it has yielded
    lat,     \* the local variables of a running Latin-1 loop
    pool,    \* the pointer given to PoolString::new, the owner it made and how often its pointer was freed
    mem      \* the units in memory at the pointer given to from_ptr or PoolString::new

vars == <<pc, op, input, other, buf0, buf, result, out, got, it, lat, pool, mem>>

----------------------------------------------------------------------------
(* Bounds of the model *)

\* longest input slice / native string, in units / scalars
MaxLen == 3

\* longest caller buffer, in units
MaxBuf == 4

\* longest content of a view compared by eq_str_until_nul
MaxView == 2

\* number of units of the raw memory behind a pointer
MaxMem == 3

\* number of calls of next on an exhausted iterator
MaxNone == 2

----------------------------------------------------------------------------
(* Program constants *)

NUL_8 == 0

NUL_16 == 0

----------------------------------------------------------------------------
(* Sequences *)

Min(a, b) == IF a < b THEN a ELSE b

\* all sequences over S of length at most n
SeqsUpTo(S, n) == UNION {[1..k -> S] : k \in 0..n}

\* &s[..n]
Take(s, n) == SubSeq(s, 1, n)

----------------------------------------------------------------------------
(* Return values *)

NoResult == [tag |-> "None", pos |-> 0, view |-> <<>>]

\* Ok(view)
Ok(v) == [tag |-> "Ok", pos |-> 0, view |-> v]

\* Err(Variant) and Err(Variant(pos))
Err(t) == [tag |-> t, pos |-> 0, view |-> <<>>]

ErrAt(t, p) == [tag |-> t, pos |-> p, view |-> <<>>]

\* Option<usize>
None == [some |-> FALSE, idx |-> 0]

Some(i) == [some |-> TRUE, idx |-> i]

----------------------------------------------------------------------------
(* Single code units and scalars *)

\* the UTF-16 surrogate code units, 0xD800..=0xDFFF: no char and no Char16 has such a value
IsSurrogate(v) == v >= 55296 /\ v <= 57343

\* char::from_u32: None for a surrogate value and for a value above char::MAX (0x10FFFF)
char_from_u32(int) ==
    IF int < 0 \/ int > 1114111 \/ IsSurrogate(int) THEN None ELSE Some(int)

\* Char16::try_from(u16): a unit is a valid Char16 unless it is a surrogate
\* (UCS-2 excludes the surrogate code units); ok = FALSE is Err(CharConversionError)
Char16_try_from(code) ==
    IF IsSurrogate(code) THEN [ok |-> FALSE, val |-> 0] ELSE [ok |-> TRUE, val |-> code]

\* u16::from(Char16), then u32::from(u16): zero extension
u32_from_Char16(c) == c % 65536

\* char::from(Char16): the scalar with the unit's value; the conversion of a
\* validated unit cannot fail
char_from_Char16(c) == u32_from_Char16(c)

\* char::from(Char8): the Latin-1 unit is the scalar of the same value
char_from_Char8(c) == c % 256

\* char::encode_utf16: one unit for a scalar of the basic plane, else the
\* high and the low surrogate of the scalar
encode_utf16_char(c) ==
    IF c <= 65535
    THEN <<c>>
    ELSE <<55296 + ((c - 65536) \div 1024), 56320 + ((c - 65536) % 1024)>>

\* str::encode_utf16: the units of the scalars, in order
RECURSIVE encode_utf16(_)
encode_utf16(s) ==
    IF s = <<>> THEN <<>> ELSE encode_utf16_char(Head(s)) \o encode_utf16(Tail(s))

----------------------------------------------------------------------------
(* Iterator adaptors *)

\* iter().position(|c| c == v), searched from Rust index pos
RECURSIVE position_from(_, _, _)
position_from(s, v, pos) ==
    IF pos >= Len(s) THEN None
    ELSE IF s[pos + 1] = v THEN Some(pos)
    ELSE position_from(s, v, pos + 1)

position(s, v) == position_from(s, v, 0)

\* l.zip(r): pairs up to the end of the shorter side
zip(l, r) == [i \in 1..Min(Len(l), Len(r)) |-> <<l[i], r[i]>>]

\* TakeWhilePred without the test of the native string's side
TakeWhilePredStopsOnLeftOnly(p) == p[1] # 0

\* the closure of take_while in eq_str_until_nul: |(l, r)| *l != '\0' && *r != '\0'
TakeWhilePred(p) == p[1] # 0 /\ p[2] # 0

\* take_while: the longest prefix of pairs that all satisfy the closure
RECURSIVE take_while(_)
take_while(pairs) ==
    IF pairs = <<>> THEN <<>>
    ELSE IF TakeWhilePred(Head(pairs)) THEN <<Head(pairs)>> \o take_while(Tail(pairs))
    ELSE <<>>

\* any(|(l, r)| l != r)
any_not_equal(pairs) == \E i \in DOMAIN pairs : pairs[i][1] # pairs[i][2]

----------------------------------------------------------------------------
(* CStr8 *)

\* CStr8::from_bytes_with_nul
from_bytes_with_nul(chars) ==
    LET nul_pos == position(chars, 0) IN
    IF nul_pos.some
    THEN IF nul_pos.idx + 1 # Len(chars)
         THEN ErrAt("InteriorNul", nul_pos.idx)
         ELSE Ok(chars)
    ELSE Err("NotNulTerminated")

\* the comparison of CStr8 without take_while: the trailing null is compared too
CStr8_eq_str_until_nul_without_take_while(self, str) ==
    ~any_not_equal(zip([i \in DOMAIN self |-> char_from_Char8(self[i])], str))

\* CStr8::eq_str_until_nul: self.0 is the whole view, trailing null included
CStr8_eq_str_until_nul(self, str) ==
    ~any_not_equal(take_while(zip([i \in DOMAIN self |-> char_from_Char8(self[i])], str)))

----------------------------------------------------------------------------
(* CStr16: checked constructors from slices *)

\* from_u16_until_nul_view without the truncation at the null
from_u16_until_nul_whole_slice(codes, pos) == Ok(codes)

\* the view from_u16_until_nul returns when the null is at Rust index pos:
\* &codes[..=pos], which panics when pos is not an index of codes
from_u16_until_nul_view(codes, pos) ==
    IF pos >= Len(codes) THEN Err("index out of bounds") ELSE Ok(Take(codes, pos + 1))

\* the loop of from_u16_until_nul, at Rust index pos
RECURSIVE from_u16_until_nul_loop(_, _)
from_u16_until_nul_loop(codes, pos) ==
    IF pos >= Len(codes) THEN Err("NoNul")
    ELSE LET chr == Char16_try_from(codes[pos + 1]) IN
         IF ~chr.ok THEN ErrAt("InvalidChar", pos)
         ELSE IF chr.val = NUL_16 THEN from_u16_until_nul_view(codes, pos)
         ELSE from_u16_until_nul_loop(codes, pos + 1)

\* from_u16_until_nul that looks for the null without validating the units before it
from_u16_until_nul_unvalidated(codes) ==
    LET end == position(codes, NUL_16) IN
    IF ~end.some THEN Err("NoNul") ELSE Ok(Take(codes, end.idx + 1))

\* CStr16::from_u16_until_nul
from_u16_until_nul(codes) == from_u16_until_nul_loop(codes, 0)

\* from_u16_with_nul_on_nul without the test that the null is the last unit
from_u16_with_nul_on_nul_accepts(codes, pos) == Ok(codes)

\* the Ok(NUL_16) arm of from_u16_with_nul, the null being at Rust index pos
\* codes.len() - 1 is a subtraction of usize values
from_u16_with_nul_on_nul(codes, pos) ==
    IF Len(codes) < 1 THEN Err("attempt to subtract with overflow")
    ELSE IF pos # Len(codes) - 1
    THEN ErrAt("InteriorNul", pos)
    ELSE Ok(codes)

\* a from_u16_with_nul that looks for the null first and validates the units
\* only when the null is in its place
from_u16_with_nul_null_first(codes, pos) ==
    LET n == position(codes, NUL_16)
        bad == {i \in DOMAIN codes : ~Char16_try_from(codes[i]).ok} IN
    IF n.some /\ n.idx # Len(codes) - 1 THEN ErrAt("InteriorNul", n.idx)
    ELSE IF bad # {}
         THEN ErrAt("InvalidChar", (CHOOSE i \in bad : \A j \in bad : i <= j) - 1)
    ELSE IF n.some THEN Ok(codes)
    ELSE Err("NotNulTerminated")

\* the loop of from_u16_with_nul, at Rust index pos
RECURSIVE from_u16_with_nul_loop(_, _)
from_u16_with_nul_loop(codes, pos) ==
    IF pos >= Len(codes) THEN Err("NotNulTerminated")
    ELSE LET chr == Char16_try_from(codes[pos + 1]) IN
         IF chr.ok /\ chr.val = NUL_16 THEN from_u16_with_nul_on_nul(codes, pos)
         ELSE IF ~chr.ok THEN ErrAt("InvalidChar", pos)
         ELSE from_u16_with_nul_loop(codes, pos + 1)

\* from_u16_with_nul that computes codes.len() - 1 once, ahead of its loop
from_u16_with_nul_hoisted_len(codes) ==
    IF Len(codes) < 1 THEN Err("attempt to subtract with overflow")
    ELSE from_u16_with_nul_loop(codes, 0)

\* CStr16::from_u16_with_nul
from_u16_with_nul(codes) == from_u16_with_nul_loop(codes, 0)

\* from_char16_until_nul without the truncation at the null
from_char16_until_nul_whole_slice(chars) ==
    LET end == position(chars, NUL_16) IN
    IF ~end.some THEN Err("NoNul") ELSE Ok(chars)

\* CStr16::from_char16_until_nul
from_char16_until_nul(chars) ==
    LET end == position(chars, NUL_16) IN
    IF ~end.some THEN Err("NoNul")
    ELSE IF end.idx >= Len(chars) THEN Err("index out of bounds")
    ELSE Ok(Take(chars, end.idx + 1))

\* a from_char16_with_nul that only looks at the last unit
from_char16_with_nul_last_unit_only(chars) ==
    IF Len(chars) = 0 THEN Err("NotNulTerminated")
    ELSE IF chars[Len(chars)] = NUL_16 THEN Ok(chars)
    ELSE Err("NotNulTerminated")

\* CStr16::from_char16_with_nul
from_char16_with_nul(chars) ==
    IF Len(chars) = 0 THEN Err("NotNulTerminated")
    ELSE LET null_index == position(chars, NUL_16) IN
         IF null_index.some
         THEN IF Len(chars) < 1 THEN Err("attempt to subtract with overflow")
              ELSE IF null_index.idx = Len(chars) - 1
              THEN Ok(chars)
              ELSE ErrAt("InteriorNul", null_index.idx)
         ELSE Err("NotNulTerminated")

----------------------------------------------------------------------------
(* CStr16: constructors that fill a caller's buffer *)

\* a constructor that writes the buffer returns the result and leaves the buffer
Outcome(r, b) == [res |-> r, buf |-> b]

\* a loop that looks at the room first and writes nothing when the units do
\* not fit in the buffer
from_str_with_buf_loop_all_or_nothing(units, b, index) ==
    IF index + Len(units) > Len(b)
    THEN [ok |-> FALSE, buf |-> b, index |-> index]
    ELSE [ok |-> TRUE,
          buf |-> [i \in DOMAIN b |->
                      IF i > index /\ i <= index + Len(units) THEN units[i - index] ELSE b[i]],
          index |-> index + Len(units)]

\* the for loop of from_str_with_buf: units still to write, the buffer, index.
\* buf.get_mut(index) is None when index is not below the length of buf
RECURSIVE from_str_with_buf_loop(_, _, _)
from_str_with_buf_loop(units, b, index) ==
    IF units = <<>> THEN [ok |-> TRUE, buf |-> b, index |-> index]
    ELSE IF index >= Len(b) THEN [ok |-> FALSE, buf |-> b, index |-> index]
    ELSE from_str_with_buf_loop(Tail(units), [b EXCEPT ![index + 1] = Head(units)], index + 1)

\* from_str_with_buf_map_err with the two variants exchanged
from_str_with_buf_map_err_swapped(r) ==
    IF r.tag = "NotNulTerminated" THEN Err("unreachable")
    ELSE IF r.tag = "InvalidChar" THEN ErrAt("InteriorNul", r.pos)
    ELSE IF r.tag = "InteriorNul" THEN ErrAt("InvalidChar", r.pos)
    ELSE r

\* the map_err closure of from_str_with_buf
from_str_with_buf_map_err(r) ==
    IF r.tag = "NotNulTerminated" THEN Err("unreachable") ELSE r

\* from_str_with_buf_validate returning a view over the whole buffer
from_str_with_buf_validate_view_whole_buf(b, index) ==
    LET r == from_str_with_buf_map_err(from_u16_with_nul(Take(b, index + 1))) IN
    IF r.tag = "Ok" THEN Ok(b) ELSE r

\* the last statement of from_str_with_buf: Self::from_u16_with_nul(&buf[..index + 1])
from_str_with_buf_validate(b, index) ==
    from_str_with_buf_map_err(from_u16_with_nul(Take(b, index + 1)))

\* from_str_with_buf_null writing buf[index] directly: a full buffer is an
\* index out of bounds, not BufferTooSmall
from_str_with_buf_null_unchecked_index(b, index) ==
    IF index >= Len(b)
    THEN Outcome(Err("panic"), b)
    ELSE LET b1 == [b EXCEPT ![index + 1] = 0] IN
         Outcome(from_str_with_buf_validate(b1, index), b1)

\* the trailing null of from_str_with_buf and the validation that follows it
from_str_with_buf_null(b, index) ==
    IF index >= Len(b)
    THEN Outcome(Err("BufferTooSmall"), b)
    ELSE LET b1 == [b EXCEPT ![index + 1] = 0] IN
         Outcome(from_str_with_buf_validate(b1, index), b1)

\* from_str_with_buf that validates buf[..index + 1] without having written
\* the trailing null at index
from_str_with_buf_without_null(str, b) ==
    LET w == from_str_with_buf_loop(encode_utf16(str), b, 0) IN
    IF ~w.ok \/ w.index >= Len(w.buf)
    THEN Outcome(Err("BufferTooSmall"), w.buf)
    ELSE Outcome(from_str_with_buf_validate(w.buf, w.index), w.buf)

\* CStr16::from_str_with_buf
from_str_with_buf(str, b) ==
    LET w == from_str_with_buf_loop(encode_utf16(str), b, 0) IN
    IF ~w.ok
    THEN Outcome(Err("BufferTooSmall"), w.buf)
    ELSE from_str_with_buf_null(w.buf, w.index)

\* UnalignedSlice::copy_to_maybe_uninit: unit-wise copy of src into dest, of the same length
copy_to_maybe_uninit(src, dest) == [i \in DOMAIN dest |-> src[i]]

\* the map_err closure of from_unaligned_slice: each FromSliceWithNulError
\* becomes the UnalignedCStr16Error of the same name and position
from_unaligned_slice_map_err(r) == r

\* from_unaligned_slice refusing a buffer of exactly the length of the source
from_unaligned_slice_strict(src, b) ==
    IF Len(src) >= Len(b)
    THEN Outcome(Err("BufferTooSmall"), b)
    ELSE LET sub == copy_to_maybe_uninit(src, Take(b, Len(src))) IN
         Outcome(from_unaligned_slice_map_err(from_u16_with_nul(sub)),
                 sub \o SubSeq(b, Len(src) + 1, Len(b)))

\* CStr16::from_unaligned_slice: buf.get_mut(..src.len()) is None when src is longer than buf
from_unaligned_slice(src, b) ==
    IF Len(src) > Len(b)
    THEN Outcome(Err("BufferTooSmall"), b)
    ELSE LET sub == copy_to_maybe_uninit(src, Take(b, Len(src))) IN
         Outcome(from_unaligned_slice_map_err(from_u16_with_nul(sub)),
                 sub \o SubSeq(b, Len(src) + 1, Len(b)))

----------------------------------------------------------------------------
(* CStr16: accessors, iteration, conversion to a native string *)

\* CStr16::num_chars
num_chars(self) == Len(self) - 1

\* CStr16::as_slice
as_slice(self) == Take(self, num_chars(self))

\* CStr16::as_slice_with_nul: &self.0
as_slice_with_nul(self) == self

\* CStr16::to_u16_slice_with_nul: the same units, read as u16
to_u16_slice_with_nul(self) == [i \in DOMAIN self |-> u32_from_Char16(self[i])]

\* CStr16::to_u16_slice: &chars[..chars.len() - 1]
to_u16_slice(self) ==
    Take(to_u16_slice_with_nul(self), Len(to_u16_slice_with_nul(self)) - 1)

\* CStr16::is_empty
is_empty(self) == num_chars(self) = 0

\* the bytes of the characters before the null only
num_bytes_without_nul(self) == num_chars(self) * 2

\* CStr16::num_bytes
num_bytes(self) == Len(self) * 2

\* CStr16::as_bytes: the num_bytes() bytes that store the units; a unit is
\* stored low byte first on the little-endian targets of the crate
CStr16_as_bytes(self) ==
    [k \in 1..num_bytes(self) |->
        IF k % 2 = 1 THEN self[(k + 1) \div 2] % 256 ELSE self[k \div 2] \div 256]

\* CStr8::as_bytes: the underlying bytes, trailing null included
CStr8_as_bytes(self) == self

\* Char16::is_ascii: the unit is in the 7-bit range
Char16_is_ascii(c) == c < 128

\* an is_ascii that looks at the first unit only
is_ascii_first_unit_only(self) == Char16_is_ascii(self[1])

\* CStr16::is_ascii: self.0.iter().all(|c| c.is_ascii()), self.0 being the
\* whole view, trailing null included
is_ascii(self) == \A i \in DOMAIN self : Char16_is_ascii(self[i])

\* a next that stops at the end of the stored units, past the trailing null
CStr16Iter_next_through_nul(inner, pos) ==
    IF pos >= Len(inner)
    THEN [item |-> None, pos |-> pos]
    ELSE [item |-> Some(inner[pos + 1]), pos |-> pos + 1]

\* CStr16Iter::next: the item (None at the end) and the iterator's new pos;
\* the item is the unit at the Rust index pos had before the call
CStr16Iter_next(inner, pos) ==
    IF pos >= Len(inner) - 1
    THEN [item |-> None, pos |-> pos]
    ELSE [item |-> Some(inner[pos + 1]), pos |-> pos + 1]

\* a native string under construction, or the panic that ended the construction
Str(s) == [str |-> s, panicked |-> FALSE]

Panicked == [str |-> <<>>, panicked |-> TRUE]

\* impl From<&CStr16> for String, from Rust index i of value.as_slice()
RECURSIVE String_from_loop(_, _, _)
String_from_loop(slice, i, acc) ==
    IF i >= Len(slice) THEN Str(acc)
    ELSE LET ch == char_from_u32(u32_from_Char16(slice[i + 1])) IN
         IF ~ch.some THEN Panicked
         ELSE String_from_loop(slice, i + 1, Append(acc, ch.idx))

\* String_from over as_slice_with_nul instead of as_slice
String_from_with_nul(value) == String_from_loop(value, 0, <<>>)

\* impl From<&CStr16> for String
String_from(value) == String_from_loop(as_slice(value), 0, <<>>)

\* the items an iterator at pos yields until it returns None
RECURSIVE CStr16Iter_items(_, _)
CStr16Iter_items(inner, pos) ==
    LET n == CStr16Iter_next(inner, pos) IN
    IF ~n.item.some THEN <<>>
    ELSE <<n.item.idx>> \o CStr16Iter_items(inner, n.pos)

\* CStr16::iter: a new iterator, at pos 0
iter(self) == CStr16Iter_items(self, 0)

\* CStr16::as_str_in_buf, writing into an empty String: one write_char per item
as_str_in_buf(self) ==
    Str([i \in DOMAIN iter(self) |-> char_from_Char16(iter(self)[i])])

\* CStr16::eq_str_until_nul: self.iter() ends before the trailing null
CStr16_eq_str_until_nul(self, str) ==
    ~any_not_equal(take_while(zip(
        [i \in DOMAIN iter(self) |-> char_from_Char16(iter(self)[i])], str)))

----------------------------------------------------------------------------
(* The mirrored comparison *)

\* the mirrored comparison written as full equality with the view's content
str_eq_str_until_nul_full_equality(self, view) == self = Take(view, Len(view) - 1)

\* impl<StrType, C16StrType> EqStrUntilNul<C16StrType> for StrType, the view
\* being a CStr8: other.eq_str_until_nul(self)
str_eq_str_until_nul_CStr8(self, view) == CStr8_eq_str_until_nul(view, self)

\* the same impl, the view being a CStr16
str_eq_str_until_nul_CStr16(self, view) == CStr16_eq_str_until_nul(view, self)

----------------------------------------------------------------------------

(* Raw pointers: from_ptr and PoolString *)

\* Memory reachable from a pointer is the sequence of the units stored from
\* that address on; the caller of from_ptr guarantees that it holds a null.

RECURSIVE from_ptr_loop(_, _)
\* while *ptr.add(len) != NUL { len += 1 }
from_ptr_loop(m, len) ==
    IF m[len + 1] # 0 THEN from_ptr_loop(m, len + 1) ELSE len

\* CStr8::from_ptr: slice::from_raw_parts(ptr, len + 1)
CStr8_from_ptr(m) == Take(m, from_ptr_loop(m, 0) + 1)

\* a from_ptr that trusts the size of the allocation instead of scanning
CStr16_from_ptr_whole_allocation(m) == m

\* CStr16::from_ptr: slice::from_raw_parts(ptr, len + 1)
CStr16_from_ptr(m) == Take(m, from_ptr_loop(m, 0) + 1)

\* Ok(PoolString): the value is the owner kept in pool, not a view
OkPoolString == [tag |-> "PoolString", pos |-> 0, view |-> <<>>]

\* the owner PoolAllocation::new(p) wraps: the pointer and how often it was
\* handed back to the allocator
Allocated(p) == [text |-> p, state |-> "Allocated", ptr |-> p, frees |-> 0]

\* no owner exists; text is the pointer the pending PoolString::new receives
NoOwner(p) == [text |-> p, state |-> "None", ptr |-> "null", frees |-> 0]

\* a PoolString::new that wraps whatever pointer it is given
PoolString_new_unchecked(text) == [res |-> OkPoolString, owner |-> Allocated(text)]

\* NonNull::new(text).map(|p| Self(PoolAllocation::new(p)))
\*     .ok_or(Status::OUT_OF_RESOURCES.into())
PoolString_new(text) ==
    IF text = "null"
    THEN [res |-> Err("OUT_OF_RESOURCES"), owner |-> NoOwner(text)]
    ELSE [res |-> OkPoolString, owner |-> Allocated(text)]

\* Deref for PoolString: CStr16::from_ptr(self.0.as_ptr()), nothing is cached
PoolString_deref(m) == CStr16_from_ptr(m)

\* dropping the PoolString drops its PoolAllocation, which frees the pointer
PoolAllocation_drop(o) == [o EXCEPT !.state = "Released", !.frees = @ + 1]

----------------------------------------------------------------------------

(* The Latin-1 codec of the cstr8 macro *)

\* the UTF-8 bytes of one scalar
as_bytes_char(c) ==
    IF c < 128 THEN <<c>>
    ELSE IF c < 2048 THEN <<192 + (c \div 64), 128 + (c % 64)>>
    ELSE IF c < 65536
         THEN <<224 + (c \div 4096), 128 + ((c \div 64) % 64), 128 + (c % 64)>>
         ELSE <<240 + (c \div 262144), 128 + ((c \div 4096) % 64),
                128 + ((c \div 64) % 64), 128 + (c % 64)>>

RECURSIVE as_bytes(_)
\* s.as_bytes(): the UTF-8 encoding of the string
as_bytes(s) == IF s = <<>> THEN <<>> ELSE as_bytes_char(Head(s)) \o as_bytes(Tail(s))

\* (ch, num_utf8_bytes)
Latin1(ch, n) == [panic |-> "", ch |-> ch, n |-> n]

\* panic!(msg), or the panic of an index out of bounds
Panic(msg) == [panic |-> msg, ch |-> 0, n |-> 0]

\* a decoder that keeps the low 8 bits of a 2-byte sequence
latin1_from_utf8_at_offset_truncating(bytes, offset) ==
    IF offset >= Len(bytes) THEN Panic("index out of bounds")
    ELSE IF bytes[offset + 1] < 128 THEN Latin1(bytes[offset + 1], 1)
    ELSE IF bytes[offset + 1] \div 32 = 6
         THEN IF offset + 1 >= Len(bytes) THEN Panic("index out of bounds")
              ELSE Latin1((((bytes[offset + 1] % 32) * 64) + (bytes[offset + 2] % 64)) % 256, 2)
         ELSE Panic("input string cannot be encoded as Latin-1")

\* latin1_from_utf8_at_offset: b & 0x80 == 0 is b < 128, b & 0xE0 == 0xC0 is
\* b \div 32 = 6, b & 0x1F is b % 32, b & 0x3F is b % 64 and (a << 6) | b is
\* a * 64 + b for b < 64
latin1_from_utf8_at_offset(bytes, offset) ==
    IF offset >= Len(bytes) THEN Panic("index out of bounds")
    ELSE IF bytes[offset + 1] < 128 THEN Latin1(bytes[offset + 1], 1)
    ELSE IF bytes[offset + 1] \div 32 = 6
         THEN IF offset + 1 >= Len(bytes) THEN Panic("index out of bounds")
              ELSE LET ch == ((bytes[offset + 1] % 32) * 64) + (bytes[offset + 2] % 64)
                   IN  IF ch > 255
                       THEN Panic("input string cannot be encoded as Latin-1")
                       ELSE Latin1(ch, 2)
         ELSE Panic("input string cannot be encoded as Latin-1")

\* the locals of a running loop: by names the function, N is its const
\* parameter, offset the input offset, prev the input offset one iteration
\* earlier, n is num_latin1_chars or output_offset
Locals(by, N, bytes) ==
    [by |-> by, N |-> N, bytes |-> bytes, offset |-> 0, prev |-> 0, n |-> 0,
     output |-> [i \in 1..N |-> 0], panic |-> ""]

\* one iteration of the loop of str_num_latin1_chars
str_num_latin1_chars_step(l) ==
    LET r == latin1_from_utf8_at_offset(l.bytes, l.offset)
    IN  IF r.panic # "" THEN [l EXCEPT !.panic = r.panic]
        ELSE [l EXCEPT !.prev = l.offset, !.offset = l.offset + r.n, !.n = l.n + 1]

\* one iteration of the loop of str_to_latin1
str_to_latin1_step(l) ==
    LET r == latin1_from_utf8_at_offset(l.bytes, l.offset)
    IN  IF r.panic # "" THEN [l EXCEPT !.panic = r.panic]
        ELSE IF r.ch = 0 THEN [l EXCEPT !.panic = "interior null character"]
        ELSE IF l.n >= l.N THEN [l EXCEPT !.panic = "index out of bounds"]
        ELSE [l EXCEPT !.output[l.n + 1] = r.ch, !.n = l.n + 1,
                       !.prev = l.offset, !.offset = l.offset + r.n]

\* a final check that only rejects arrays that are too short
str_to_latin1_check_too_short_only(l) ==
    IF l.n + 1 > l.N THEN Err("incorrect array length") ELSE Ok(l.output)

\* if output_offset + 1 != N { panic!("incorrect array length") }; output
str_to_latin1_check(l) ==
    IF l.n + 1 # l.N THEN Err("incorrect array length") ELSE Ok(l.output)

\* the usize str_num_latin1_chars returns
Usize(n) == [tag |-> "usize", pos |-> n, view |-> <<>>]

----------------------------------------------------------------------------

(* Arguments of the calls *)

\* u8 units: the null, 'A', Latin-1 e acute
U8Units == {0, 65, 233}

\* u16 units: the null, 'A', the euro sign, a high and a low surrogate
U16Units == {0, 65, 8364, 55357, 56832}

\* Char16 units: u16 units that Char16::try_from accepts
Char16Units == {u \in U16Units : Char16_try_from(u).ok}

\* scalars of a native string: the null, 'A', e acute, the euro sign, U+1F600
StrScalars == {0, 65, 233, 8364, 128512}

\* units a caller's buffer holds before the call: zero, 'X'
BufUnits == {0, 88}

Bufs == SeqsUpTo(BufUnits, MaxBuf)

\* the CStr8 and CStr16 views eq_str_until_nul is called on: non-null
\* units followed by the null
CStr8Views == {c \o <<NUL_8>> : c \in SeqsUpTo(U8Units \ {NUL_8}, MaxView)}

CStr16Views == {c \o <<NUL_16>> : c \in SeqsUpTo(Char16Units \ {NUL_16}, MaxView)}

\* native strings compared against a view
OtherScalars == {0, 65, 233, 8364}

\* the constructors whose successful result is a CStr16
CStr16Ops == {"from_u16_until_nul", "from_u16_with_nul", "from_char16_until_nul",
              "from_char16_with_nul", "from_str_with_buf", "from_unaligned_slice"}

NoOut == [by |-> "None", str |-> <<>>, panicked |-> FALSE]

\* no accessor called, no iterator made, no Latin-1 loop running, no PoolString
NoGot == [by |-> "None", owner |-> "None", mem |-> <<>>, prev |-> <<>>]

NoIter == [by |-> "None", pos |-> 0, yielded |-> <<>>, nones |-> 0, prev |-> None, items |-> <<>>]

\* CStr16Iter { inner: self, pos: 0 }, made after the iterator i: yielded are
\* the units the new iterator returned so far, nones counts its calls of
\* next that returned None, prev.some tells that an iterator made earlier
\* was exhausted, and items are the units that one returned
CStr16_iter(i) ==
    [by |-> "iter", pos |-> 0, yielded |-> <<>>, nones |-> 0,
     prev |-> IF i.nones > 0 THEN Some(0) ELSE i.prev,
     items |-> IF i.nones > 0 THEN i.yielded ELSE i.items]

NoLat == Locals("None", 0, <<>>)

\* scalars of the strings handed to the Latin-1 codec: NUL, 'A', e acute,
\* L with stroke (2 bytes, above 0xFF), the euro sign (3 bytes), an emoji
\* (4 bytes)
Latin1Scalars == {0, 65, 233, 321, 8364, 128512}

NoPool == NoOwner("null")

\* units stored in raw memory
MemUnits == {0, 65}

\* memories that satisfy the contract of from_ptr: a null is stored in them
Mems == {m \in SeqsUpTo(MemUnits, MaxMem) : \E i \in DOMAIN m : m[i] = 0}

\* pointers handed to PoolString::new
Ptrs == {"null", "pool"}

----------------------------------------------------------------------------
(* The calls *)

Init ==
    /\ pc = "call"
    /\ result = NoResult
    /\ out = NoOut
    /\ got = NoGot
    /\ it = NoIter
    /\ \/ /\ lat = NoLat /\ pool = NoPool /\ mem = <<>>
          /\ \/ /\ op = "from_bytes_with_nul"
                /\ input \in SeqsUpTo(U8Units, MaxLen)
                /\ other = <<>> /\ buf0 = <<>> /\ buf = <<>>
             \/ /\ op \in {"from_u16_until_nul", "from_u16_with_nul"}
                /\ input \in SeqsUpTo(U16Units, MaxLen)
                /\ other = <<>> /\ buf0 = <<>> /\ buf = <<>>
             \/ /\ op \in {"from_char16_until_nul", "from_char16_with_nul"}
                /\ input \in SeqsUpTo(Char16Units, MaxLen)
                /\ other = <<>> /\ buf0 = <<>> /\ buf = <<>>
             \/ /\ op = "from_str_with_buf"
                /\ input \in SeqsUpTo(StrScalars, MaxLen)
                /\ buf0 \in Bufs /\ buf = buf0
                /\ other = <<>>
             \/ /\ op = "from_unaligned_slice"
                /\ input \in SeqsUpTo(U16Units, MaxLen)
                /\ buf0 \in Bufs /\ buf = buf0
                /\ other = <<>>
             \/ /\ op \in {"CStr8::eq_str_until_nul", "str::eq_str_until_nul(CStr8)"}
                /\ input \in CStr8Views
                /\ other \in SeqsUpTo(OtherScalars, MaxLen)
                /\ buf0 = <<>> /\ buf = <<>>
             \/ /\ op \in {"CStr16::eq_str_until_nul", "str::eq_str_until_nul(CStr16)"}
                /\ input \in CStr16Views
                /\ other \in SeqsUpTo(OtherScalars, MaxLen)
                /\ buf0 = <<>> /\ buf = <<>>
       \/ /\ pool = NoPool /\ mem = <<>>
          /\ input \in SeqsUpTo(Latin1Scalars, MaxLen)
          /\ other = <<>> /\ buf0 = <<>> /\ buf = <<>>
          /\ \/ /\ op = "str_num_latin1_chars"
                /\ lat = NoLat
             \/ /\ op = "str_to_latin1"
                /\ \E N \in 0..(MaxLen + 2) : lat = Locals("None", N, <<>>)
       \/ /\ lat = NoLat
          /\ input = <<>> /\ other = <<>> /\ buf0 = <<>> /\ buf = <<>>
          /\ mem \in Mems
          /\ \/ /\ op \in {"CStr8::from_ptr", "CStr16::from_ptr"}
                /\ pool = NoPool
             \/ /\ op = "PoolString::new"
                /\ \E p \in Ptrs : pool = NoOwner(p)

FromBytesWithNul ==
    /\ pc = "call" /\ op = "from_bytes_with_nul"
    /\ result' = from_bytes_with_nul(input)
    /\ pc' = "done"
    /\ UNCHANGED <<op, input, other, buf0, buf, out>>
    /\ UNCHANGED <<got, it, lat, pool, mem>>

FromU16UntilNul ==
    /\ pc = "call" /\ op = "from_u16_until_nul"
    /\ result' = from_u16_until_nul(input)
    /\ pc' = "done"
    /\ UNCHANGED <<op, input, other, buf0, buf, out>>
    /\ UNCHANGED <<got, it, lat, pool, mem>>

FromU16WithNul ==
    /\ pc = "call" /\ op = "from_u16_with_nul"
    /\ result' = from_u16_with_nul(input)
    /\ pc' = "done"
    /\ UNCHANGED <<op, input, other, buf0, buf, out>>
    /\ UNCHANGED <<got, it, lat, pool, mem>>

FromChar16UntilNul ==
    /\ pc = "call" /\ op = "from_char16_until_nul"
    /\ result' = from_char16_until_nul(input)
    /\ pc' = "done"
    /\ UNCHANGED <<op, input, other, buf0, buf, out>>
    /\ UNCHANGED <<got, it, lat, pool, mem>>

FromChar16WithNul ==
    /\ pc = "call" /\ op = "from_char16_with_nul"
    /\ result' = from_char16_with_nul(input)
    /\ pc' = "done"
    /\ UNCHANGED <<op, input, other, buf0, buf, out>>
    /\ UNCHANGED <<got, it, lat, pool, mem>>

FromStrWithBuf ==
    /\ pc = "call" /\ op = "from_str_with_buf"
    /\ result' = from_str_with_buf(input, buf).res
    /\ buf' = from_str_with_buf(input, buf).buf
    /\ pc' = "done"
    /\ UNCHANGED <<op, input, other, buf0, out>>
    /\ UNCHANGED <<got, it, lat, pool, mem>>

FromUnalignedSlice ==
    /\ pc = "call" /\ op = "from_unaligned_slice"
    /\ result' = from_unaligned_slice(input, buf).res
    /\ buf' = from_unaligned_slice(input, buf).buf
    /\ pc' = "done"
    /\ UNCHANGED <<op, input, other, buf0, out>>
    /\ UNCHANGED <<got, it, lat, pool, mem>>

\* eq_str_until_nul returns a bool
Bool(b) == [tag |-> "Bool", pos |-> 0, view |-> <<>>, val |-> b]

CStr8EqStrUntilNul ==
    /\ pc = "call" /\ op = "CStr8::eq_str_until_nul"
    /\ result' = Bool(CStr8_eq_str_until_nul(input, other))
    /\ pc' = "done"
    /\ UNCHANGED <<op, input, other, buf0, buf, out>>
    /\ UNCHANGED <<got, it, lat, pool, mem>>

CStr16EqStrUntilNul ==
    /\ pc = "call" /\ op = "CStr16::eq_str_until_nul"
    /\ result' = Bool(CStr16_eq_str_until_nul(input, other))
    /\ pc' = "done"
    /\ UNCHANGED <<op, input, other, buf0, buf, out>>
    /\ UNCHANGED <<got, it, lat, pool, mem>>

\* N.eq_str_until_nul(V): other is the native string N, input the CStr8 view V
StrEqStrUntilNulCStr8 ==
    /\ pc = "call" /\ op = "str::eq_str_until_nul(CStr8)"
    /\ result' = Bool(str_eq_str_until_nul_CStr8(other, input))
    /\ pc' = "done"
    /\ UNCHANGED <<op, input, other, buf0, buf, out>>
    /\ UNCHANGED <<got, it, lat, pool, mem>>

\* N.eq_str_until_nul(V): other is the native string N, input the CStr16 view V
StrEqStrUntilNulCStr16 ==
    /\ pc = "call" /\ op = "str::eq_str_until_nul(CStr16)"
    /\ result' = Bool(str_eq_str_until_nul_CStr16(other, input))
    /\ pc' = "done"
    /\ UNCHANGED <<op, input, other, buf0, buf, out>>
    /\ UNCHANGED <<got, it, lat, pool, mem>>

\* String::from(view) on the CStr16 a constructor returned
StringFrom ==
    /\ pc = "done" /\ op \in CStr16Ops /\ result.tag = "Ok"
    /\ out' = [by |-> "String::from", str |-> String_from(result.view).str,
               panicked |-> String_from(result.view).panicked]
    /\ pc' = "decoded"
    /\ UNCHANGED <<op, input, other, buf0, buf, result>>
    /\ UNCHANGED <<got, it, lat, pool, mem>>

\* view.as_str_in_buf(&mut String::new()) on the CStr16 a constructor returned
AsStrInBuf ==
    /\ pc = "done" /\ op \in CStr16Ops /\ result.tag = "Ok"
    /\ out' = [by |-> "as_str_in_buf", str |-> as_str_in_buf(result.view).str,
               panicked |-> as_str_in_buf(result.view).panicked]
    /\ pc' = "decoded"
    /\ UNCHANGED <<op, input, other, buf0, buf, result>>
    /\ UNCHANGED <<got, it, lat, pool, mem>>

\* every accessor of CStr16 called on the view a constructor returned
CStr16Accessors ==
    /\ pc = "done" /\ op \in CStr16Ops /\ result.tag = "Ok"
    /\ got' = [by |-> "CStr16",
               num_chars |-> num_chars(result.view),
               is_empty |-> is_empty(result.view),
               as_slice |-> as_slice(result.view),
               as_slice_with_nul |-> as_slice_with_nul(result.view),
               to_u16_slice |-> to_u16_slice(result.view),
               to_u16_slice_with_nul |-> to_u16_slice_with_nul(result.view),
               num_bytes |-> num_bytes(result.view),
               as_bytes |-> CStr16_as_bytes(result.view),
               is_ascii |-> is_ascii(result.view)]
    /\ pc' = "accessed"
    /\ UNCHANGED <<op, input, other, buf0, buf, result, out>>
    /\ UNCHANGED <<it, lat, pool, mem>>

\* as_bytes called on the CStr8 from_bytes_with_nul returned
CStr8AsBytes ==
    /\ pc = "done" /\ op = "from_bytes_with_nul" /\ result.tag = "Ok"
    /\ got' = [by |-> "CStr8", as_bytes |-> CStr8_as_bytes(result.view)]
    /\ pc' = "accessed"
    /\ UNCHANGED <<op, input, other, buf0, buf, result, out>>
    /\ UNCHANGED <<it, lat, pool, mem>>

\* view.iter() on the CStr16 a constructor returned, for the first time or again
CStr16Iter ==
    /\ pc \in {"done", "iterating"} /\ op \in CStr16Ops /\ result.tag = "Ok"
    /\ it' = CStr16_iter(it)
    /\ pc' = "iterating"
    /\ UNCHANGED <<op, input, other, buf0, buf, result, out>>
    /\ UNCHANGED <<got, lat, pool, mem>>

\* iterator.next()
CStr16IterNext ==
    /\ pc = "iterating"
    /\ it.nones < MaxNone
    /\ LET n == CStr16Iter_next(result.view, it.pos) IN
          it' = IF n.item.some
                THEN [it EXCEPT !.pos = n.pos, !.yielded = Append(@, n.item.idx)]
                ELSE [it EXCEPT !.pos = n.pos, !.nones = @ + 1]
    /\ UNCHANGED <<pc, op, input, other, buf0, buf, result, out>>
    /\ UNCHANGED <<got, lat, pool, mem>>

\* CStr8::from_ptr(ptr), mem being the memory behind ptr
CStr8FromPtr ==
    /\ pc = "call" /\ op = "CStr8::from_ptr"
    /\ result' = Ok(CStr8_from_ptr(mem))
    /\ pc' = "done"
    /\ UNCHANGED <<op, input, other, buf0, buf, out>>
    /\ UNCHANGED <<got, it, lat, pool, mem>>

\* CStr16::from_ptr(ptr), mem being the memory behind ptr
CStr16FromPtr ==
    /\ pc = "call" /\ op = "CStr16::from_ptr"
    /\ result' = Ok(CStr16_from_ptr(mem))
    /\ pc' = "done"
    /\ UNCHANGED <<op, input, other, buf0, buf, out>>
    /\ UNCHANGED <<got, it, lat, pool, mem>>

\* PoolString::new(text): on success the caller holds the owner
PoolStringNew ==
    /\ pc = "call" /\ op = "PoolString::new"
    /\ result' = PoolString_new(pool.text).res
    /\ pool' = PoolString_new(pool.text).owner
    /\ pc' = IF pool'.state = "Allocated" THEN "owned" ELSE "done"
    /\ UNCHANGED <<op, input, other, buf0, buf, out>>
    /\ UNCHANGED <<got, it, lat, mem>>

\* *pool_string: got remembers the owner's state and the memory at the call
\* and the view of the dereference before this one
PoolStringDeref ==
    /\ pc = "owned"
    /\ result' = Ok(PoolString_deref(mem))
    /\ got' = [by |-> "deref", owner |-> pool.state, mem |-> mem,
               prev |-> IF got.by = "deref" THEN result.view ELSE <<>>]
    /\ UNCHANGED <<pc, op, input, other, buf0, buf, out>>
    /\ UNCHANGED <<it, lat, pool, mem>>

\* the firmware or the caller stores a unit in the pool memory, which still
\* holds a null afterwards
MemWrite ==
    /\ pc = "owned"
    /\ \E i \in DOMAIN mem, u \in MemUnits :
          /\ mem' = [mem EXCEPT ![i] = u]
          /\ mem' # mem
          /\ \E j \in DOMAIN mem : mem'[j] = 0
    /\ UNCHANGED <<pc, op, input, other, buf0, buf, result, out>>
    /\ UNCHANGED <<got, it, lat, pool>>

\* the PoolString goes out of scope
PoolStringDrop ==
    /\ pc = "owned"
    /\ pool' = PoolAllocation_drop(pool)
    /\ pc' = "done"
    /\ UNCHANGED <<op, input, other, buf0, buf, result, out>>
    /\ UNCHANGED <<got, it, lat, mem>>

\* str_num_latin1_chars(s) up to its loop
StrNumLatin1Chars ==
    /\ pc = "call" /\ op = "str_num_latin1_chars"
    /\ lat' = Locals("str_num_latin1_chars", 0, as_bytes(input))
    /\ pc' = "loop"
    /\ UNCHANGED <<op, input, other, buf0, buf, result, out>>
    /\ UNCHANGED <<got, it, pool, mem>>

\* one iteration of while offset < len
StrNumLatin1CharsStep ==
    /\ pc = "loop" /\ op = "str_num_latin1_chars"
    /\ lat.offset < Len(lat.bytes)
    /\ lat' = str_num_latin1_chars_step(lat)
    /\ IF lat'.panic # ""
       THEN result' = Err(lat'.panic) /\ pc' = "done"
       ELSE UNCHANGED <<result, pc>>
    /\ UNCHANGED <<op, input, other, buf0, buf, out>>
    /\ UNCHANGED <<got, it, pool, mem>>

\* the loop is left and num_latin1_chars is returned
StrNumLatin1CharsReturn ==
    /\ pc = "loop" /\ op = "str_num_latin1_chars"
    /\ ~(lat.offset < Len(lat.bytes))
    /\ result' = Usize(lat.n)
    /\ pc' = "done"
    /\ UNCHANGED <<op, input, other, buf0, buf, out>>
    /\ UNCHANGED <<got, it, lat, pool, mem>>

\* str_to_latin1::<N>(s) up to its loop
StrToLatin1 ==
    /\ pc = "call" /\ op = "str_to_latin1"
    /\ lat' = Locals("str_to_latin1", lat.N, as_bytes(input))
    /\ pc' = "loop"
    /\ UNCHANGED <<op, input, other, buf0, buf, result, out>>
    /\ UNCHANGED <<got, it, pool, mem>>

\* one iteration of while input_offset < len
StrToLatin1Step ==
    /\ pc = "loop" /\ op = "str_to_latin1"
    /\ lat.offset < Len(lat.bytes)
    /\ lat' = str_to_latin1_step(lat)
    /\ IF lat'.panic # ""
       THEN result' = Err(lat'.panic) /\ pc' = "done"
       ELSE UNCHANGED <<result, pc>>
    /\ UNCHANGED <<op, input, other, buf0, buf, out>>
    /\ UNCHANGED <<got, it, pool, mem>>

\* the loop is left, the length of the array is checked and it is returned
StrToLatin1Return ==
    /\ pc = "loop" /\ op = "str_to_latin1"
    /\ ~(lat.offset < Len(lat.bytes))
    /\ result' = str_to_latin1_check(lat)
    /\ pc' = "done"
    /\ UNCHANGED <<op, input, other, buf0, buf, out>>
    /\ UNCHANGED <<got, it, lat, pool, mem>>

Next ==
    \/ FromBytesWithNul
    \/ FromU16UntilNul
    \/ FromU16WithNul
    \/ FromChar16UntilNul
    \/ FromChar16WithNul
    \/ FromStrWithBuf
    \/ FromUnalignedSlice
    \/ CStr8EqStrUntilNul
    \/ CStr16EqStrUntilNul
    \/ StrEqStrUntilNulCStr8
    \/ StrEqStrUntilNulCStr16
    \/ CStr16Iter
    \/ CStr16IterNext
    \/ CStr16Accessors
    \/ CStr8AsBytes
    \/ StrNumLatin1Chars
    \/ StrNumLatin1CharsStep
    \/ StrNumLatin1CharsReturn
    \/ StrToLatin1
    \/ StrToLatin1Step
    \/ StrToLatin1Return
    \/ CStr8FromPtr
    \/ CStr16FromPtr
    \/ PoolStringNew
    \/ PoolStringDeref
    \/ MemWrite
    \/ PoolStringDrop
    \/ StringFrom
    \/ AsStrInBuf

Spec == Init /\ [][Next]_vars

TypeOK ==
    /\ pc \in {"call", "done", "decoded", "owned", "loop", "accessed", "iterating"}
    /\ pool.state \in {"None", "Allocated", "Released"}
    /\ Len(buf) = Len(buf0)
    /\ result.tag \in {"None", "Ok", "Bool", "InvalidChar", "InteriorNul",
                       "NotNulTerminated", "NoNul", "BufferTooSmall", "unreachable",
                       "OUT_OF_RESOURCES", "PoolString", "usize",
                       "input string cannot be encoded as Latin-1",
                       "interior null character", "index out of bounds",
                       "incorrect array length",
                       "attempt to subtract with overflow"}

----------------------------------------------------------------------------
(* Vocabulary of the properties *)

\* the call has returned
Returned(name) == pc # "call" /\ op = name

\* 1-based index of the first null unit of s, 0 when s has none
FirstNulAt(s) ==
    IF \E i \in DOMAIN s : s[i] = 0
    THEN CHOOSE i \in DOMAIN s : s[i] = 0 /\ \A j \in 1..(i - 1) : s[j] # 0
    ELSE 0

\* 1-based index of the first unit of s that is not valid UCS-2, 0 when s has none
FirstInvalidAt(s) ==
    IF \E i \in DOMAIN s : IsSurrogate(s[i])
    THEN CHOOSE i \in DOMAIN s : IsSurrogate(s[i]) /\ \A j \in 1..(i - 1) : ~IsSurrogate(s[j])
    ELSE 0

\* the invariant of a view: at least one unit, the last unit is the null, no other unit is
ViewInvariant(v) ==
    /\ Len(v) >= 1
    /\ v[Len(v)] = 0
    /\ \A i \in 1..(Len(v) - 1) : v[i] # 0

\* the classification of a slice by the position of its first null unit alone
ClassifyByFirstNul(s) ==
    LET p == FirstNulAt(s) IN
    IF p = 0 THEN Err("NotNulTerminated")
    ELSE IF p # Len(s) THEN ErrAt("InteriorNul", p - 1)
    ELSE Ok(s)

----------------------------------------------------------------------------
(* C1 *)

\* C1: every view a checked constructor returns with success (from_bytes_with_nul,
\* from_u16_with_nul, from_u16_until_nul, from_char16_with_nul,
\* from_char16_until_nul, from_str_with_buf, from_unaligned_slice) has at least
\* one unit, ends with the null unit and holds the null unit at no other index.
C1_ViewInvariant ==
    (pc # "call" /\ result.tag = "Ok") => ViewInvariant(result.view)

\* from_u16_until_nul succeeded on a slice that goes on after its first null
C1_Witness ==
    /\ Returned("from_u16_until_nul")
    /\ result.tag = "Ok"
    /\ Len(result.view) = 2
    /\ Len(input) = 3

----------------------------------------------------------------------------
(* C2 *)

\* C2 as stated: every with-null constructor classifies its input by the position
\* of the first null unit alone: NotNulTerminated without a null, InteriorNul(p)
\* when the first null is at p and p is not the last index, else success over
\* the whole input.
C2_Original ==
    \A name \in {"from_bytes_with_nul", "from_u16_with_nul", "from_char16_with_nul"} :
        Returned(name) => result = ClassifyByFirstNul(input)

\* C2 amended: from_bytes_with_nul and from_char16_with_nul classify every input
\* by the position of the first null unit; from_u16_with_nul does so when no
\* invalid UCS-2 unit precedes the first null unit (or occurs anywhere, when
\* there is no null), and returns InvalidChar(index of the first invalid unit)
\* otherwise.
C2_Amended ==
    /\ \A name \in {"from_bytes_with_nul", "from_char16_with_nul"} :
          Returned(name) => result = ClassifyByFirstNul(input)
    /\ Returned("from_u16_with_nul") =>
          LET n == FirstNulAt(input)
              v == FirstInvalidAt(input) IN
          IF v # 0 /\ (n = 0 \/ v < n)
          THEN result = ErrAt("InvalidChar", v - 1)
          ELSE result = ClassifyByFirstNul(input)

\* from_u16_with_nul met a null at index 1 of a longer slice of valid units
C2_Witness ==
    /\ Returned("from_u16_with_nul")
    /\ Len(input) = 3
    /\ FirstInvalidAt(input) = 0
    /\ result = ErrAt("InteriorNul", 1)

----------------------------------------------------------------------------
(* C3 *)

\* C3: from_u16_until_nul returns InvalidChar(pos) for the first invalid UCS-2
\* unit when that unit comes before any null unit, success over the units
\* [0..=p] when the first null unit is at p and no invalid unit precedes it, and
\* NoNul exactly when the input holds neither a null nor an invalid unit.
C3_UntilNulScan ==
    Returned("from_u16_until_nul") =>
        LET n == FirstNulAt(input)
            v == FirstInvalidAt(input) IN
        /\ (v # 0 /\ (n = 0 \/ v < n)) => result = ErrAt("InvalidChar", v - 1)
        /\ (n # 0 /\ (v = 0 \/ n < v)) => result = Ok(Take(input, n))
        /\ (result = Err("NoNul")) <=> (n = 0 /\ v = 0)

\* an invalid unit at index 1 comes before the null at index 2
C3_Witness ==
    /\ Returned("from_u16_until_nul")
    /\ FirstInvalidAt(input) = 2
    /\ FirstNulAt(input) = 3
    /\ result = ErrAt("InvalidChar", 1)

----------------------------------------------------------------------------
(* C4 *)

\* C4: the result of from_u16_until_nul and of from_char16_until_nul on an input
\* whose first null unit is at index p is the result on the prefix [0..=p] of
\* that input, whatever follows index p.
C4_Truncation ==
    LET n == FirstNulAt(input) IN
    /\ (Returned("from_u16_until_nul") /\ n # 0) =>
          result = from_u16_until_nul(Take(input, n))
    /\ (Returned("from_char16_until_nul") /\ n # 0) =>
          result = from_char16_until_nul(Take(input, n))

\* from_u16_until_nul succeeded although an invalid unit follows the first null
C4_Witness ==
    /\ Returned("from_u16_until_nul")
    /\ FirstNulAt(input) = 2
    /\ FirstInvalidAt(input) = 3
    /\ result.tag = "Ok"

----------------------------------------------------------------------------
(* Vocabulary of the properties: native strings *)

\* the number of 16-bit units a native string encodes to: two for a scalar above 0xFFFF
RECURSIVE UnitCount(_)
UnitCount(s) ==
    IF s = <<>> THEN 0
    ELSE (IF Head(s) > 65535 THEN 2 ELSE 1) + UnitCount(Tail(s))

\* a scalar from_str_with_buf rejects: the null, or one not representable in UCS-2
Offending(c) == c = 0 \/ c > 65535

\* 1-based index of the first offending scalar of s, 0 when s has none
FirstOffendingAt(s) ==
    IF \E i \in DOMAIN s : Offending(s[i])
    THEN CHOOSE i \in DOMAIN s : Offending(s[i]) /\ \A j \in 1..(i - 1) : ~Offending(s[j])
    ELSE 0

----------------------------------------------------------------------------
(* C5 *)

\* C5: from_str_with_buf returns BufferTooSmall if and only if the buffer has
\* fewer than n + 1 units, n being the number of 16-bit units the input encodes
\* to, whatever the input holds (a null or a non-UCS-2 scalar included).
C5_BufferTooSmall ==
    Returned("from_str_with_buf") =>
        ((result = Err("BufferTooSmall")) <=> (Len(buf0) < UnitCount(input) + 1))

\* an undersized buffer and an input that holds a null and a non-UCS-2 scalar
C5_Witness ==
    /\ Returned("from_str_with_buf")
    /\ \E i \in DOMAIN input : input[i] = 0
    /\ \E i \in DOMAIN input : input[i] > 65535
    /\ Len(buf0) = UnitCount(input)
    /\ result = Err("BufferTooSmall")

----------------------------------------------------------------------------
(* C6 *)

\* C6: a view from_str_with_buf returns with success is the n encoded units of
\* the input in order followed by one null unit, n + 1 units in all, also when
\* the buffer is longer: no buffer unit past the appended null is in the view.
C6_SuccessView ==
    (Returned("from_str_with_buf") /\ result.tag = "Ok") =>
        /\ result.view = encode_utf16(input) \o <<0>>
        /\ Len(result.view) = UnitCount(input) + 1

\* success in a buffer with non-null units past the appended null
C6_Witness ==
    /\ Returned("from_str_with_buf")
    /\ result.tag = "Ok"
    /\ Len(input) = 2
    /\ Len(buf) = 4
    /\ buf[4] # 0
    /\ Len(result.view) = 3

----------------------------------------------------------------------------
(* C7 *)

\* C7: with a buffer of at least n + 1 units, from_str_with_buf returns
\* InvalidChar(pos) when the first offending scalar of the input is not
\* representable in UCS-2, InteriorNul(pos) when it is the null, pos being the
\* index in emitted 16-bit units of that scalar's first unit, and success exactly
\* when the input holds no offending scalar.
C7_InvalidInput ==
    (Returned("from_str_with_buf") /\ Len(buf0) >= UnitCount(input) + 1) =>
        LET k == FirstOffendingAt(input) IN
        /\ (k # 0 /\ input[k] > 65535) =>
              result = ErrAt("InvalidChar", UnitCount(Take(input, k - 1)))
        /\ (k # 0 /\ input[k] = 0) =>
              result = ErrAt("InteriorNul", UnitCount(Take(input, k - 1)))
        /\ (result.tag = "Ok") <=> (k = 0)

\* a non-UCS-2 scalar after one valid scalar, in a large enough buffer
C7_Witness ==
    /\ Returned("from_str_with_buf")
    /\ Len(input) = 2
    /\ input[1] = 65 /\ input[2] > 65535
    /\ Len(buf0) >= UnitCount(input) + 1
    /\ result = ErrAt("InvalidChar", 1)

----------------------------------------------------------------------------
(* C8 *)

\* every scalar of the native string is representable in UCS-2 and none is the null
Encodable(s) == \A i \in DOMAIN s : ~Offending(s[i])

\* C8: a native string s without a null scalar and with only UCS-2 scalars,
\* encoded by from_str_with_buf into a buffer of at least len(s) + 1 units, is
\* encoded with success, and converting the view back by String::from or by
\* as_str_in_buf gives s again and never panics.
C8_RoundTrip ==
    (op = "from_str_with_buf" /\ Encodable(input) /\ Len(buf0) >= Len(input) + 1) =>
        /\ pc = "done" => result.tag = "Ok"
        /\ pc = "decoded" => (~out.panicked /\ out.str = input)

\* a three-scalar string of distinct scalars converted back by String::from
C8_Witness ==
    /\ pc = "decoded"
    /\ op = "from_str_with_buf"
    /\ out.by = "String::from"
    /\ Len(input) = 3
    /\ input[1] # input[2]
    /\ out.str = input

----------------------------------------------------------------------------
(* C9 *)

\* C9: from_unaligned_slice returns BufferTooSmall if and only if the buffer is
\* shorter than the source; otherwise its outcome is that of from_u16_with_nul
\* on the units of the source, however much longer the buffer is.
C9_Unaligned ==
    Returned("from_unaligned_slice") =>
        /\ (result = Err("BufferTooSmall")) <=> (Len(buf0) < Len(input))
        /\ Len(buf0) >= Len(input) => result = from_u16_with_nul(input)

\* success over a three-unit source in a longer buffer
C9_Witness ==
    /\ Returned("from_unaligned_slice")
    /\ Len(input) = 3
    /\ Len(buf0) = 4
    /\ result = Ok(input)

----------------------------------------------------------------------------
(* C10 *)

\* the comparison as the property states it: l is the view's units without the
\* trailing null, r the scalars of the native string; the pairs are compared up
\* to the first pair that holds a null scalar
StopAt(l, r) ==
    LET m == Min(Len(l), Len(r)) IN
    IF \E i \in 1..m : l[i] = 0 \/ r[i] = 0
    THEN CHOOSE i \in 1..m : (l[i] = 0 \/ r[i] = 0)
                             /\ \A j \in 1..(i - 1) : l[j] # 0 /\ r[j] # 0
    ELSE m + 1

EqualUntilStop(l, r) == \A i \in 1..(StopAt(l, r) - 1) : l[i] = r[i]

\* eq_str_until_nul of the view the call was made on
EqOfCall(view, str) ==
    IF op = "CStr8::eq_str_until_nul"
    THEN CStr8_eq_str_until_nul(view, str)
    ELSE CStr16_eq_str_until_nul(view, str)

\* C10: V.eq_str_until_nul(N) pairs the units of V, trailing null excluded, with
\* the scalars of N position by position, stops at the first pair in which
\* either side is the null scalar, and is true if and only if no pair before
\* the stop differs; what N holds after its first null scalar never changes the
\* result, and the result is true when the comparison stops at the first pair.
C10_EqUntilNul ==
    (pc # "call" /\ op \in {"CStr8::eq_str_until_nul", "CStr16::eq_str_until_nul"}) =>
        LET l == Take(input, Len(input) - 1)
            n == FirstNulAt(other) IN
        /\ result.val <=> EqualUntilStop(l, other)
        /\ n # 0 => \A rest \in SeqsUpTo(OtherScalars, 2) :
                       EqOfCall(input, Take(other, n) \o rest) = result.val
        /\ StopAt(l, other) = 1 => result.val

\* the native string equals the view up to its null and differs from it after
C10_Witness ==
    /\ Returned("CStr16::eq_str_until_nul")
    /\ Len(input) = 3
    /\ Len(other) = 3
    /\ other[1] = input[1] /\ other[2] = 0 /\ other[3] # 0
    /\ result.val

----------------------------------------------------------------------------
(* C11 *)

\* C11 as stated: for a native string N without a null scalar,
\* V.eq_str_until_nul(N) is true if and only if N has exactly as many scalars
\* as V has non-null units and the two are equal at every position; a strict
\* prefix and a strict extension of the view's content compare unequal.
C11_Original ==
    (pc # "call" /\ op \in {"CStr8::eq_str_until_nul", "CStr16::eq_str_until_nul"}
        /\ FirstNulAt(other) = 0) =>
        (result.val <=> other = Take(input, Len(input) - 1))

----------------------------------------------------------------------------
(* C12 *)

\* C12: for every view V (CStr8 or CStr16) and every native string N,
\* N.eq_str_until_nul(V) returns the boolean V.eq_str_until_nul(N) returns.
C12_Symmetry ==
    /\ Returned("str::eq_str_until_nul(CStr8)") =>
          result.val = CStr8_eq_str_until_nul(input, other)
    /\ Returned("str::eq_str_until_nul(CStr16)") =>
          result.val = CStr16_eq_str_until_nul(input, other)

\* the mirrored call on a view and a longer native string that starts with its content
C12_Witness ==
    /\ Returned("str::eq_str_until_nul(CStr16)")
    /\ Len(input) = 2
    /\ Len(other) = 2
    /\ other[1] = input[1]
    /\ other[2] # 0
    /\ result.val

----------------------------------------------------------------------------
(* C13 *)

\* C13: PoolString::new on a null pointer returns the OUT_OF_RESOURCES error
\* and creates no owner; on any other pointer it yields an Allocated owner
\* of that pointer.  The owner's pointer has been handed back to the
\* allocator exactly once when the owner is released and not at all before,
\* so never twice, and every dereference ran on an Allocated owner.
C13_Lifecycle ==
    Returned("PoolString::new") =>
        /\ pool.text = "null" =>
              /\ result = Err("OUT_OF_RESOURCES")
              /\ pool.state = "None"
              /\ pool.frees = 0
              /\ pc = "done"
              /\ got = NoGot
        /\ pool.text # "null" =>
              /\ got.by # "deref" => result = OkPoolString
              /\ pool.state \in {"Allocated", "Released"}
              /\ pool.ptr = pool.text
              /\ pool.state = "Allocated" <=> pc = "owned"
              /\ pool.state = "Released" <=> pc = "done"
              /\ pool.frees = IF pool.state = "Released" THEN 1 ELSE 0
              /\ got.by = "deref" => got.owner = "Allocated"

\* an owner that was dereferenced and then released
C13_Witness ==
    /\ Returned("PoolString::new")
    /\ pool.state = "Released"
    /\ pool.frees = 1
    /\ got.by = "deref"

----------------------------------------------------------------------------
(* C20 *)

\* C20: from_ptr of CStr8 and of CStr16 and every dereference of an
\* Allocated PoolString return a view of exactly c + 1 units, c being the
\* index of the first null in the memory behind the pointer when the call
\* is made: the units up to and including that null.  A dereference made
\* after the memory changed is computed from the changed memory.
C20_Rescan ==
    /\ (Returned("CStr8::from_ptr") \/ Returned("CStr16::from_ptr")) =>
          /\ result = Ok(Take(mem, FirstNulAt(mem)))
          /\ Len(result.view) = (FirstNulAt(mem) - 1) + 1
    /\ got.by = "deref" =>
          /\ got.owner = "Allocated"
          /\ result = Ok(Take(got.mem, FirstNulAt(got.mem)))
          /\ Len(result.view) = (FirstNulAt(got.mem) - 1) + 1

\* two dereferences with a write between them that overwrote the first
\* null: the second view is longer than the first
C20_Witness ==
    /\ got.by = "deref"
    /\ got.prev # <<>>
    /\ Len(result.view) > Len(got.prev)
    /\ Len(got.mem) > Len(result.view)

----------------------------------------------------------------------------
(* Vocabulary of the properties: the Latin-1 codec *)

\* every scalar of the string is a Latin-1 character other than NUL
Latin1NonZero(s) == \A i \in DOMAIN s : s[i] >= 1 /\ s[i] <= 255

\* the hard failures of the codec
Latin1Panics ==
    {"input string cannot be encoded as Latin-1", "interior null character",
     "index out of bounds", "incorrect array length"}

\* the call of the codec has returned or failed
Finished(name) == op = name /\ pc = "done"

\* a loop of the codec is running or has ended on the string of the call
InLoop == op \in {"str_num_latin1_chars", "str_to_latin1"} /\ pc \in {"loop", "done"}

----------------------------------------------------------------------------
(* C14 *)

\* C14: str_to_latin1::<N>(s) returns an array exactly when every scalar of
\* s is in 1..=0xFF and N is the number of scalars of s plus 1; the array
\* then holds the value of the i-th scalar at index i for i < N - 1 and 0 at
\* index N - 1.  A scalar above 0xFF or a zero scalar anywhere in s makes
\* the call fail hard, as does every other call that returns no array.
C14_StrToLatin1 ==
    Finished("str_to_latin1") =>
        /\ result.tag = "Ok" <=> (Latin1NonZero(input) /\ lat.N = Len(input) + 1)
        /\ result.tag = "Ok" =>
              /\ Len(result.view) = lat.N
              /\ \A i \in 1..(lat.N - 1) : result.view[i] = input[i]
              /\ result.view[lat.N] = 0
        /\ result.tag # "Ok" => result.tag \in Latin1Panics
        /\ (\E i \in DOMAIN input : input[i] > 255 \/ input[i] = 0) =>
              result.tag \in Latin1Panics

\* "A" followed by e acute (two UTF-8 bytes) transcoded into three bytes
C14_Witness ==
    /\ Finished("str_to_latin1")
    /\ input = <<65, 233>>
    /\ result = Ok(<<65, 233, 0>>)

----------------------------------------------------------------------------
(* C15 *)

\* what C15 says of the loops: on a Latin-1-encodable string without a zero
\* scalar the input offset grows by 1 or 2 per iteration, stays within the
\* input, every read of the decoder is in bounds and the decoder accepts,
\* the loop is left with the offset at the end of the input, and
\* str_num_latin1_chars returns the number of scalars
C15_Loops ==
    (InLoop /\ Latin1NonZero(input)) =>
        /\ lat.bytes = as_bytes(input)
        /\ lat.offset <= Len(lat.bytes)
        /\ lat.n <= Len(input)
        /\ lat.n = 0 <=> lat.offset = 0
        /\ lat.n > 0 => lat.offset - lat.prev \in {1, 2}
        /\ lat.offset < Len(lat.bytes) =>
              latin1_from_utf8_at_offset(lat.bytes, lat.offset).panic = ""
        /\ (pc = "done" /\ lat.panic = "") =>
              (lat.offset = Len(lat.bytes) /\ lat.n = Len(input))
        /\ Finished("str_num_latin1_chars") => result = Usize(Len(input))

\* C15 as stated: the loops behave as above and str_to_latin1::<N>(s) fails
\* with 'incorrect array length' exactly when N differs from
\* str_num_latin1_chars(s) + 1.
C15_Original ==
    /\ C15_Loops
    /\ (Finished("str_to_latin1") /\ Latin1NonZero(input)) =>
          (result.tag = "incorrect array length" <=> lat.N # Len(input) + 1)

\* C15 amended: the loops behave as above and str_to_latin1::<N>(s) fails
\* hard exactly when N differs from str_num_latin1_chars(s) + 1: with
\* 'incorrect array length' when N is at least the number of scalars, and
\* with an index out of bounds on the output array, before the length is
\* compared, when N is smaller than the number of scalars.
C15_Amended ==
    /\ C15_Loops
    /\ (Finished("str_to_latin1") /\ Latin1NonZero(input)) =>
          /\ result.tag # "Ok" <=> lat.N # Len(input) + 1
          /\ result.tag = "incorrect array length" <=>
                (lat.N # Len(input) + 1 /\ lat.N >= Len(input))
          /\ result.tag = "index out of bounds" <=> lat.N < Len(input)
          /\ result.tag = "index out of bounds" =>
                (lat.n = lat.N /\ lat.offset < Len(lat.bytes))

\* a two-character string transcoded into an array of one byte
C15_Witness ==
    /\ Finished("str_to_latin1")
    /\ input = <<65, 233>>
    /\ lat.N = 1
    /\ result.tag = "index out of bounds"

----------------------------------------------------------------------------
(* C16 *)

\* the checked constructors that take a slice
WithNulFamily == {"from_bytes_with_nul", "from_u16_with_nul", "from_char16_with_nul"}

UntilNulFamily == {"from_u16_until_nul", "from_char16_until_nul"}

\* C16: each checked slice constructor returns Ok or one of its error
\* values for every input: no call ends in an index out of bounds or in an
\* underflow of len - 1.  The empty input yields NotNulTerminated in the
\* with-null family and NoNul in the until-null family, and the input that
\* is a single null yields a view of logical length 0.
C16_NoPanic ==
    \A name \in WithNulFamily \cup UntilNulFamily :
        Returned(name) =>
            /\ result.tag \in {"Ok", "InvalidChar", "InteriorNul", "NotNulTerminated", "NoNul"}
            /\ input = <<>> =>
                  result = Err(IF name \in WithNulFamily THEN "NotNulTerminated" ELSE "NoNul")
            /\ input = <<0>> => (result = Ok(<<0>>) /\ num_chars(result.view) = 0)

\* from_u16_with_nul has returned on the empty slice
C16_Witness ==
    /\ Returned("from_u16_with_nul")
    /\ input = <<>>
    /\ result = Err("NotNulTerminated")

----------------------------------------------------------------------------
(* C17 *)

\* C17: on a CStr16 view of L >= 1 stored units num_chars() is L - 1,
\* is_empty() holds exactly when L = 1, as_slice() and to_u16_slice() are
\* the first L - 1 units and hold no null, as_slice_with_nul() and
\* to_u16_slice_with_nul() are all L units and end in the null, num_bytes()
\* is 2 * L and as_bytes() has 2 * L bytes, the two bytes of each unit in
\* turn and the two null bytes of the trailing null last; as_bytes() of a
\* CStr8 view is all L bytes, trailing null included.
C17_Accessors ==
    LET v == result.view
        L == Len(result.view) IN
    /\ got.by = "CStr16" =>
          /\ L >= 1
          /\ got.num_chars = L - 1
          /\ got.is_empty <=> L = 1
          /\ got.as_slice = Take(v, L - 1)
          /\ got.to_u16_slice = Take(v, L - 1)
          /\ \A i \in DOMAIN got.as_slice : got.as_slice[i] # 0
          /\ got.as_slice_with_nul = v
          /\ got.to_u16_slice_with_nul = v
          /\ v[L] = 0
          /\ got.num_bytes = 2 * L
          /\ Len(got.as_bytes) = 2 * L
          /\ \A i \in 1..L :
                /\ got.as_bytes[2 * i - 1] \in 0..255
                /\ got.as_bytes[2 * i] \in 0..255
                /\ got.as_bytes[2 * i - 1] + 256 * got.as_bytes[2 * i] = v[i]
          /\ got.as_bytes[2 * L - 1] = 0
          /\ got.as_bytes[2 * L] = 0
    /\ got.by = "CStr8" =>
          /\ L >= 1
          /\ got.as_bytes = v
          /\ Len(got.as_bytes) = L
          /\ got.as_bytes[L] = 0

\* the accessors were called on a view of two characters, one of them above 0xFF
C17_Witness ==
    /\ got.by = "CStr16"
    /\ Len(result.view) = 3
    /\ result.view[2] > 255
    /\ got.num_bytes = 6

----------------------------------------------------------------------------
(* C19 *)

\* C19: is_ascii() is true exactly when every unit of the view before the
\* trailing null is below 0x80; the trailing null, which is inspected too,
\* does not change the result, and the empty string is ASCII.
C19_IsAscii ==
    got.by = "CStr16" =>
        /\ got.is_ascii <=> \A i \in 1..(Len(result.view) - 1) : result.view[i] < 128
        /\ got.is_ascii <=> \A i \in DOMAIN got.as_slice : Char16_is_ascii(got.as_slice[i])
        /\ Len(result.view) = 1 => got.is_ascii

\* is_ascii was called on a view whose first unit is ASCII and whose second is not
C19_Witness ==
    /\ got.by = "CStr16"
    /\ Len(result.view) = 3
    /\ result.view[1] < 128
    /\ result.view[2] >= 128
    /\ ~got.is_ascii

----------------------------------------------------------------------------
(* C18 *)

\* C18: an iterator over a CStr16 view of L stored units has returned, after
\* pos successful calls of next, the first pos units of the view in index
\* order; pos never exceeds L - 1, so the trailing null is never returned;
\* next returns None only after all L - 1 units before the null were
\* returned, and nothing is returned after a None; an iterator obtained
\* after an exhausted one starts at index 0 and returns the same units.
C18_Iteration ==
    LET v == result.view
        L == Len(result.view) IN
    it.by = "iter" =>
        /\ it.pos <= L - 1
        /\ it.yielded = Take(v, it.pos)
        /\ \A i \in DOMAIN it.yielded : it.yielded[i] # 0
        /\ it.nones > 0 => (it.pos = L - 1 /\ it.yielded = Take(v, L - 1))
        /\ it.prev.some => it.items = Take(v, L - 1)
        /\ (it.prev.some /\ it.nones > 0) => it.yielded = it.items

\* a second iterator over a view of two characters returned both and then
\* None twice, after a first iterator had been exhausted
C18_Witness ==
    /\ it.by = "iter"
    /\ it.prev.some
    /\ Len(it.items) = 2
    /\ it.yielded = it.items
    /\ it.nones = 2

----------------------------------------------------------------------------
(* C21 *)

\* C21: from_str_with_buf never reaches the unreachable!() arm of its
\* map_err closure, for any input string and any buffer: whenever the
\* buffer is large enough, the span buf[..index + 1] handed to
\* from_u16_with_nul ends with the null written at index, so that call
\* does not return NotNulTerminated.
C21_Unreachable ==
    Returned("from_str_with_buf") =>
        /\ result.tag # "unreachable"
        /\ result.tag \in {"Ok", "InvalidChar", "InteriorNul", "BufferTooSmall"}
        /\ result.tag # "BufferTooSmall" =>
              LET index == UnitCount(input) IN
              /\ index + 1 <= Len(buf)
              /\ buf[index + 1] = 0
              /\ from_u16_with_nul(Take(buf, index + 1)).tag # "NotNulTerminated"

\* the null was written over a non-null unit of the buffer and the call succeeded
C21_Witness ==
    /\ Returned("from_str_with_buf")
    /\ result.tag = "Ok"
    /\ Len(input) = 2
    /\ buf0[UnitCount(input) + 1] # 0
    /\ buf[UnitCount(input) + 1] = 0

----------------------------------------------------------------------------
(* C22 *)

\* C22: from_u16_with_nul reports the earliest offending unit of one scan
\* from the left.  An invalid UCS-2 unit before the first null, or anywhere
\* when there is no null, gives InvalidChar(index of the first invalid
\* unit), not NotNulTerminated or InteriorNul; a null at a non-final index
\* before any invalid unit gives InteriorNul(that index), whatever invalid
\* units follow it.
C22_EarliestOffender ==
    Returned("from_u16_with_nul") =>
        LET n == FirstNulAt(input)
            v == FirstInvalidAt(input) IN
        /\ (v # 0 /\ (n = 0 \/ v < n)) =>
              /\ result = ErrAt("InvalidChar", v - 1)
              /\ result.tag \notin {"NotNulTerminated", "InteriorNul"}
        /\ (n # 0 /\ n < Len(input) /\ (v = 0 \/ n < v)) =>
              result = ErrAt("InteriorNul", n - 1)
        /\ result.tag \in {"InvalidChar", "InteriorNul"} =>
              result.pos = Min(IF v = 0 THEN Len(input) ELSE v - 1,
                               IF n = 0 THEN Len(input) ELSE n - 1)

\* an invalid unit ahead of a null that is not the last unit
C22_Witness ==
    /\ Returned("from_u16_with_nul")
    /\ Len(input) = 3
    /\ FirstInvalidAt(input) = 1
    /\ FirstNulAt(input) = 2
    /\ result = ErrAt("InvalidChar", 0)

----------------------------------------------------------------------------
(* C23 *)

\* every unit of the view is a Latin-1 character
Latin1View(v) == \A i \in DOMAIN v : v[i] <= 255

\* C23: a CStr8 view and a CStr16 view that hold the same Latin-1 content
\* give the same eq_str_until_nul(N) for every native string N: the result
\* of the comparison called on the CStr8 is the one the CStr16
\* implementation gives on the same units, and the other way round, although
\* the CStr8 implementation pairs the trailing null too and stops on it.
C23_SameComparison ==
    /\ Returned("CStr8::eq_str_until_nul") =>
          result.val = CStr16_eq_str_until_nul(input, other)
    /\ (Returned("CStr16::eq_str_until_nul") /\ Latin1View(input)) =>
          result.val = CStr8_eq_str_until_nul(input, other)

\* a CStr8 compared with a longer native string that starts with its
\* content: the trailing null is paired with the string's third scalar
C23_Witness ==
    /\ Returned("CStr8::eq_str_until_nul")
    /\ input = <<65, 233, 0>>
    /\ other = <<65, 233, 65>>
    /\ result.val

----------------------------------------------------------------------------
(* C24 *)

\* C24: from_str_with_buf on an input that encodes to n units writes the
\* caller's buffer at the indices 0..=min(n, len(buf) - 1) only: whatever
\* the result, the units of the buffer below min(n, len(buf)) are the
\* encoded units, the unit at index n, when the buffer has one, is the null,
\* and every unit at an index above n is what it was before the call.
\* Nothing is restored on failure: after BufferTooSmall, InvalidChar or
\* InteriorNul the prefix of the buffer holds the units written.
C24_Frame ==
    Returned("from_str_with_buf") =>
        LET n   == UnitCount(input)
            enc == encode_utf16(input) IN
        /\ Len(buf) = Len(buf0)
        /\ \A j \in 1..Min(n, Len(buf)) : buf[j] = enc[j]
        /\ n < Len(buf) => buf[n + 1] = 0
        /\ \A j \in DOMAIN buf : j > n + 1 => buf[j] = buf0[j]
        /\ result.tag = "BufferTooSmall" => buf = Take(enc, Len(buf))
        /\ result.tag \in {"InvalidChar", "InteriorNul"} =>
              Take(buf, n + 1) = enc \o <<0>>

\* BufferTooSmall after the first of two units was written over the 'X' the
\* buffer held
C24_Witness ==
    /\ Returned("from_str_with_buf")
    /\ result = Err("BufferTooSmall")
    /\ UnitCount(input) = 2
    /\ Len(buf0) = 1
    /\ buf0[1] = 88
    /\ buf[1] = encode_utf16(input)[1]
    /\ buf # buf0

----------------------------------------------------------------------------
(* C25 *)

\* what C25 says of a call of a with-null constructor that returned r, u
\* being what the until-null constructor of the same family returns on the
\* same input: success implies the success of the other with an equal view,
\* and where this one fails and the other succeeds the input has a null
\* before its last index, the other truncates there and this one returns
\* InteriorNul of that index
WithNulVersusUntilNul(r, u) ==
    LET n == FirstNulAt(input) IN
    /\ r.tag = "Ok" => u = r
    /\ (r.tag # "Ok" /\ u.tag = "Ok") =>
          /\ n # 0 /\ n < Len(input)
          /\ u = Ok(Take(input, n))
          /\ r = ErrAt("InteriorNul", n - 1)

\* the same of a call of an until-null constructor that returned r, w being
\* what the with-null constructor returns on the same input
UntilNulVersusWithNul(r, w) ==
    LET n == FirstNulAt(input) IN
    /\ (r.tag = "Ok" /\ n = Len(input)) => w = r
    /\ (r.tag = "Ok" /\ n < Len(input)) =>
          /\ r = Ok(Take(input, n))
          /\ w = ErrAt("InteriorNul", n - 1)
    /\ r.tag # "Ok" => w.tag # "Ok"

\* C25: on every input on which from_u16_with_nul succeeds from_u16_until_nul
\* succeeds with an equal view, and likewise for from_char16_with_nul and
\* from_char16_until_nul; whenever an until-null constructor succeeds and
\* the first null of the input is at its last index, the with-null
\* constructor succeeds with an equal view; the two succeed or fail
\* differently only on inputs with a null before the last index, where
\* until-null truncates and with-null returns InteriorNul.
C25_Families ==
    /\ Returned("from_u16_with_nul") =>
          WithNulVersusUntilNul(result, from_u16_until_nul(input))
    /\ Returned("from_char16_with_nul") =>
          WithNulVersusUntilNul(result, from_char16_until_nul(input))
    /\ Returned("from_u16_until_nul") =>
          UntilNulVersusWithNul(result, from_u16_with_nul(input))
    /\ Returned("from_char16_until_nul") =>
          UntilNulVersusWithNul(result, from_char16_with_nul(input))

\* from_u16_until_nul truncated a slice at a null before its last index and
\* an invalid unit after it
C25_Witness ==
    /\ Returned("from_u16_until_nul")
    /\ Len(input) = 3
    /\ FirstNulAt(input) = 2
    /\ FirstInvalidAt(input) = 3
    /\ result = Ok(Take(input, 2))

====
